---- MODULE Spec2Model ----
(***************************************************************************)
(* Model of kaos_cli/facades/backend_facade.py: the BackendFacade that     *)
(* sequences the terraform service, the state service, the remote cleanup  *)
(* request and the generated build files for init / build / destroy.       *)
(*                                                                         *)
(* The facade is single-threaded and synchronous.  Each call the facade    *)
(* makes on a collaborator is one step; pc is the position inside the      *)
(* running public operation, and a raised exception ends the operation     *)
(* (pc returns to "idle" with the exception's name in result).             *)
(***************************************************************************)
EXTENDS Integers, Sequences, FiniteSets, TLC

\* ---------------------------------------------------------------- bounds
\* Number of public operations (init / build / destroy) run in a row.
MaxOps == 2

\* ------------------------------------------------------- program constants
DOCKER == "DOCKER"
MINIKUBE == "MINIKUBE"
AWS == "AWS"
GCP == "GCP"
BACKEND == "BACKEND"
INFRASTRUCTURE == "INFRASTRUCTURE"
TF_DIR == "TF_DIR"
TF_STATE == "TF_STATE"
TF_STATE_BACKUP == "TF_STATE_BACKUP"
TF_CONFIG_JSON == "TF_CONFIG_JSON"

\* Python's None, and an unset local variable.
None == "<None>"

Providers == {DOCKER, MINIKUBE, AWS, GCP}
Envs == {"dev"}
Artifacts == {TF_DIR, TF_STATE, TF_STATE_BACKUP, TF_CONFIG_JSON}

\* MINIKUBE left out of the local providers.
is_cloud_unless_docker(cloud) == cloud \notin {DOCKER}
\* def is_cloud_provider(cloud): return cloud not in (DOCKER, MINIKUBE)
is_cloud_provider(cloud) == cloud \notin {DOCKER, MINIKUBE}

\* PROVIDER_DICT.get(provider): the provider's directory, as path components.
ProviderDir(provider) == <<provider>>
\* f"{directory}/{env}"
TemplateDir(provider, env) == <<provider, env>>
\* f"{directory}/__working_{env}"
WorkingDir(provider, env) == <<provider, "__working_", env>>

\* ------------------------------------------------------------ input sets
\* Arguments of init(url, token).
InitUrls == {<<"http://given:80/">>}
InitTokens == {<<"given-token">>}

\* Outcomes of a call on a collaborator that may raise.
Outcomes == {"ok", "raise"}
\* Outcomes of requests.delete: a 2xx response, an error response (returned,
\* not raised: the facade never looks at it), or a raised RequestException.
HttpOutcomes == {"ok", "http_error", "raise"}

\* A JSON number or string, as json.load gives it: t is the type, n the
\* number, s the string as a sequence of characters.
Num(n) == [t |-> "num", n |-> n, s |-> <<>>]
Str(s) == [t |-> "str", n |-> 0, s |-> s]

\* One entry of backend_domain; hostname / ip are None when the key is absent.
Entry(hostname, ip) == [hostname |-> hostname, ip |-> ip]

\* Documents terraform apply may leave in TF_CONFIG_JSON.
ConfigSamples ==
  { [backend_domain |-> <<Entry("h", "1.2.3.4")>>, port |-> Num(8080), path |-> "/api", kubeconfig |-> "kube-1"],
    [backend_domain |-> <<Entry("", "5.6.7.8"), Entry("g", None)>>, port |-> Str(<<"8", "0">>), path |-> "/", kubeconfig |-> "kube-2"],
    [backend_domain |-> <<Entry(None, None)>>, port |-> Num(80), path |-> "/", kubeconfig |-> "kube-1"],
    [backend_domain |-> <<Entry("h", None)>>, port |-> Str(<<"8", "x">>), path |-> "/api", kubeconfig |-> "kube-2"] }

\* Process environments os.getenv reads: no credential set, or every one.
EnvVarNames == {"AWS_ACCESS_KEY_ID", "AWS_SECRET_ACCESS_KEY", "AWS_DEFAULT_REGION",
                "GOOGLE_APPLICATION_CREDENTIALS"}
EnvironSamples ==
  { [v \in EnvVarNames |-> None],
    ("AWS_ACCESS_KEY_ID" :> "abc") @@ ("AWS_SECRET_ACCESS_KEY" :> "xyz")
      @@ ("AWS_DEFAULT_REGION" :> "us") @@ ("GOOGLE_APPLICATION_CREDENTIALS" :> "/creds.json") }

VARIABLES
  pc,          \* position in the running operation, "idle" between operations
  op,          \* the running (or last finished) operation and its arguments
  prev,        \* the operation finished before op, and whether it returned
  result,      \* "running", "ok", or the name of the exception op raised
  calls,       \* the calls op has made so far: <<name, outcome>> in order
  loc,         \* local variables of op: extra_vars, directory, url, kubeconfig, token
  mem,         \* state service: the sections held in memory
  disk,        \* state service: the persisted state
  disk0,       \* disk when op started
  files,       \* which of TF_DIR, TF_STATE, TF_STATE_BACKUP, TF_CONFIG_JSON exist
  files0,      \* files when op started
  workdirs0,   \* workdirs when op started
  localcfg0,   \* localcfg when op started
  workspaces0, \* workspaces when op started
  config,      \* content of TF_CONFIG_JSON (NoConfig while the file is absent)
  workdirs,    \* the working directories that exist
  localcfg,    \* the working directories holding a copied local-backend config
  workspaces,  \* terraform workspaces that exist: <<directory, env>>
  environ,     \* the process environment
  tfDirHoldsWork, \* whether the working directories lie under TF_DIR
  nOps,        \* operations started
  uuids        \* uuid4 values drawn

vars == <<pc, op, prev, result, calls, loc, mem, disk, disk0, files, files0, workdirs0,
          localcfg0, workspaces0, config,
          workdirs, localcfg, workspaces, environ, tfDirHoldsWork, nOps, uuids>>


\* ------------------------------------------------------------- texts
\* A formatted string is a sequence of pieces.  f"{x}" of None is "None".
NoneText == <<None>>
Format(text) == IF text = NoneText THEN <<"None">> ELSE text

\* str(n) for n >= 0, one piece per decimal digit.
DigitChars == <<"0", "1", "2", "3", "4", "5", "6", "7", "8", "9">>
RECURSIVE FormatInt(_)
FormatInt(n) ==
  IF n < 10 THEN <<DigitChars[n + 1]>>
  ELSE FormatInt(n \div 10) \o <<DigitChars[(n % 10) + 1]>>

IsDigit(c) == \E i \in 1..10 : DigitChars[i] = c
DigitValue(c) == (CHOOSE i \in 1..10 : DigitChars[i] = c) - 1
RECURSIVE DigitsValue(_)
DigitsValue(s) ==
  IF s = <<>> THEN 0
  ELSE 10 * DigitsValue(SubSeq(s, 1, Len(s) - 1)) + DigitValue(s[Len(s)])

\* int(x) of a JSON number or string: ValueError unless the string is digits.
IntRaises(x) == x.t = "str" /\ (x.s = <<>> \/ \E i \in 1..Len(x.s) : ~IsDigit(x.s[i]))
IntOf(x) == IF x.t = "num" THEN x.n ELSE DigitsValue(x.s)

\* ----------------------------------------------------- state service
\* The persisted state and the sections in memory.  A section is a function
\* from its keys to their values; the state holds the sections that exist.
NoSections == [s \in {} |-> {}]
NoState == [created |-> FALSE, sections |-> NoSections]

StateIsCreated(d) == d.created
StateCreate(d) == [d EXCEPT !.created = TRUE]
StateHasSection(m, section) == section \in DOMAIN m
StateGet(m, section, key) ==
  IF section \in DOMAIN m /\ key \in DOMAIN m[section] THEN m[section][key] ELSE NoneText
\* set(section, **kv): the keys given are set, the section's other keys kept.
StateSet(m, section, kv) ==
  LET old == IF section \in DOMAIN m THEN m[section] ELSE [k \in {} |-> NoneText]
      new == [k \in DOMAIN old \cup DOMAIN kv |-> IF k \in DOMAIN kv THEN kv[k] ELSE old[k]]
  IN [s \in DOMAIN m \cup {section} |-> IF s = section THEN new ELSE m[s]]
StateWrite(m, d) == [d EXCEPT !.sections = m]

\* ------------------------------------------------ facade properties
\* The url property reading the user key.
PropertyUrlFromUser(m) == StateGet(m, BACKEND, "user")
\* Lines 30-32: url.
PropertyUrl(m) == StateGet(m, BACKEND, "url")
\* Lines 34-36: user.
PropertyUser(m) == StateGet(m, BACKEND, "user")
\* Lines 38-40: token.
PropertyToken(m) == StateGet(m, BACKEND, "token")
\* Lines 42-44: kubeconfig.
PropertyKubeconfig(m) == StateGet(m, INFRASTRUCTURE, "kubeconfig")

\* ------------------------------------------------- terraform service
\* What an apply or destroy leaves of the terraform state files.
TfWritesState(f) ==
  f \cup {TF_STATE} \cup (IF TF_STATE \in f THEN {TF_STATE_BACKUP} ELSE {})

\* -------------------------------------------------------- _get_vars
\* One "--var key=value" token; os.getenv gives None for a missing variable
\* and the f-string formats it as "None".
VarToken(key, value) == <<"--var", key, IF value = None THEN "None" ELSE value>>

OutDir == "/cwd"

\* _get_vars with the region variable left out for AWS.
GetVarsNoRegion(provider, environment) ==
  <<VarToken("config_dir", OutDir)>>
  \o (IF provider = AWS
      THEN << VarToken("aws_access_key_id", environment["AWS_ACCESS_KEY_ID"]),
              VarToken("aws_secret_access_key", environment["AWS_SECRET_ACCESS_KEY"]) >>
      ELSE <<>>)
  \o (IF provider = GCP
      THEN << VarToken("credentials_path", environment["GOOGLE_APPLICATION_CREDENTIALS"]) >>
      ELSE <<>>)

\* Lines 139-161: the "--var" tokens, in order.
GetVars(provider, environment) ==
  <<VarToken("config_dir", OutDir)>>
  \o (IF provider = AWS
      THEN << VarToken("aws_access_key_id", environment["AWS_ACCESS_KEY_ID"]),
              VarToken("aws_secret_access_key", environment["AWS_SECRET_ACCESS_KEY"]),
              VarToken("region", environment["AWS_DEFAULT_REGION"]) >>
      ELSE <<>>)
  \o (IF provider = GCP
      THEN << VarToken("credentials_path", environment["GOOGLE_APPLICATION_CREDENTIALS"]) >>
      ELSE <<>>)

\* ------------------------------------------------------ _parse_config
\* hostname or ip: the first operand unless it is falsy (None or "").
Falsy(x) == x = None \/ x = ""
\* The second operand preferred: ip or hostname.
OrElseSecond(a, b) == IF Falsy(b) THEN a ELSE b
OrElse(a, b) == IF Falsy(a) THEN b ELSE a

\* Lines 124-127: the first entry's hostname, or else its ip.
ParseDomain(raw) ==
  LET domain_value == raw.backend_domain[1]
  IN OrElse(domain_value.hostname, domain_value.ip)

\* _parse_config without the check of lines 129-130.
ParseOutcomeNoHostnameCheck(raw) == IF IntRaises(raw.port) THEN "ValueError" ELSE "ok"
\* The exception _parse_config raises on raw, "ok" when it returns.
ParseOutcome(raw) ==
  IF Falsy(ParseDomain(raw)) THEN "HostnameError"
  ELSE IF IntRaises(raw.port) THEN "ValueError"
  ELSE "ok"

\* url = f"http://{domain}:{port}{path}"
ParseUrl(raw) ==
  <<"http://", ParseDomain(raw), ":">> \o FormatInt(IntOf(raw.port)) \o <<raw.path>>
ParseKubeconfig(raw) == <<raw.kubeconfig>>

\* uuid4(): the n-th value drawn.
UuidPool == <<"uuid-a", "uuid-b", "uuid-c", "uuid-d", "uuid-e", "uuid-f">>
Uuid4(n) == <<UuidPool[n]>>


\* ------------------------------------------------------------ the state
NoConfig == [backend_domain |-> <<Entry(None, None)>>, port |-> Num(0), path |-> "",
             kubeconfig |-> ""]
NoOp == [kind |-> "none", provider |-> None, env |-> None, local_backend |-> FALSE,
         destroying |-> FALSE, url |-> NoneText, token |-> NoneText]
NoLocals == [extra_vars |-> <<>>, directory |-> <<>>, url |-> NoneText,
             kubeconfig |-> NoneText, request |-> <<>>]

Init ==
  /\ pc = "idle"
  /\ op = NoOp
  /\ prev = [kind |-> "none", provider |-> None, env |-> None, returned |-> TRUE]
  /\ result = "ok"
  /\ calls = <<>>
  /\ loc = NoLocals
  /\ mem = NoSections
  /\ disk = NoState
  /\ disk0 = NoState
  /\ files = {}
  /\ files0 = {}
  /\ workdirs0 = {}
  /\ localcfg0 = {}
  /\ workspaces0 = {}
  /\ config = NoConfig
  /\ workdirs = {}
  /\ localcfg = {}
  /\ workspaces = {}
  /\ environ \in EnvironSamples
  /\ tfDirHoldsWork \in BOOLEAN
  /\ nOps = 0
  /\ uuids = 0

\* The call `name` returned or raised (`outcome`).
Log(name, outcome) == calls' = Append(calls, <<name, outcome>>)
\* An exception leaves the running operation.
Raise(exc) == pc' = "idle" /\ result' = exc
\* The running operation returns.
Return == pc' = "idle" /\ result' = "ok"

\* The caller starts the next public operation, with fresh locals.
Enter(o, first) ==
  /\ pc = "idle"
  /\ nOps < MaxOps
  /\ nOps' = nOps + 1
  /\ prev' = [kind |-> op.kind, provider |-> op.provider, env |-> op.env,
               returned |-> (result = "ok")]
  /\ op' = o
  /\ pc' = first
  /\ result' = "running"
  /\ calls' = <<>>
  /\ disk0' = disk
  /\ files0' = files
  /\ workdirs0' = workdirs
  /\ localcfg0' = localcfg
  /\ workspaces0' = workspaces

Persistent == <<mem, disk, files, config, workdirs, localcfg, workspaces>>
Fixed == <<environ, tfDirHoldsWork>>
Frame == <<op, prev, disk0, files0, workdirs0, localcfg0, workspaces0, nOps, environ,
          tfDirHoldsWork>>

\* build with the state persisted before apply and _parse_config have run.
BuildStepsPersistFirst ==
  << "_tf_init", "tf.plan", "state.create", "state.set.BACKEND",
     "state.set.INFRASTRUCTURE", "state.write", "tf.apply", "_parse_config" >>
\* The statements of build after _get_vars and set_verbose, in order (lines 57-66).
BuildSteps ==
  << "_tf_init", "tf.plan", "tf.apply", "_parse_config", "state.create",
     "state.set.BACKEND", "state.set.INFRASTRUCTURE", "state.write" >>
\* destroy with the infrastructure destroyed before the cleanup request.
DestroyStepsDestroyFirst ==
  << "_tf_init", "tf.destroy", "_delete_resources", "_remove_build_files" >>
\* destroy planning before it destroys.
DestroyStepsWithPlan ==
  << "_tf_init", "tf.plan", "_delete_resources", "tf.destroy", "_remove_build_files" >>
\* The statements of destroy after _get_vars and set_verbose, in order (lines 72-75).
DestroySteps == << "_tf_init", "_delete_resources", "tf.destroy", "_remove_build_files" >>

Steps(kind) == IF kind = "build" THEN BuildSteps ELSE DestroySteps
\* The statement that follows `step` in the running operation, "return" after the last.
StepAfter(kind, step) ==
  LET seq == Steps(kind)
      i == CHOOSE j \in 1..Len(seq) : seq[j] = step
  IN IF i = Len(seq) THEN "return" ELSE seq[i + 1]
Goto(step) == IF step = "return" THEN Return ELSE pc' = step /\ result' = result
\* The statement `step` is done: control moves to the next one.
Done(step) == Goto(StepAfter(op.kind, step))

\* --------------------------------------------------------------- init
\* init(url, token) is called.
InitCall(url, token) ==
  /\ Enter([NoOp EXCEPT !.kind = "init", !.url = url, !.token = token], "init")
  /\ loc' = NoLocals
  /\ UNCHANGED <<Persistent, Fixed, uuids>>

\* Lines 47-51: create the state if absent, set BACKEND url and token, write.
InitBody ==
  /\ pc = "init"
  /\ LET created == IF StateIsCreated(disk) THEN disk ELSE StateCreate(disk)
         m == StateSet(mem, BACKEND, [url |-> op.url, token |-> op.token])
     IN /\ mem' = m
        /\ disk' = StateWrite(m, created)
        /\ calls' = calls
                    \o (IF StateIsCreated(disk) THEN <<>> ELSE << <<"state.create", "ok">> >>)
                    \o << <<"state.set.BACKEND", "ok">>, <<"state.write", "ok">> >>
  /\ Return
  /\ UNCHANGED <<loc, files, config, workdirs, localcfg, workspaces, Frame, uuids>>

\* ---------------------------------------------------- build and destroy
\* build(provider, env, local_backend) is called; lines 54-56.
BuildCall(provider, env, local_backend) ==
  /\ Enter([NoOp EXCEPT !.kind = "build", !.provider = provider, !.env = env,
                        !.local_backend = local_backend, !.destroying = FALSE],
           BuildSteps[1])
  /\ loc' = [NoLocals EXCEPT !.extra_vars = GetVars(provider, environ)]
  /\ UNCHANGED <<Persistent, Fixed, uuids>>

\* destroy(provider, env) is called; lines 69-72: _tf_init gets
\* local_backend=False, destroying=True.
DestroyCall(provider, env) ==
  /\ Enter([NoOp EXCEPT !.kind = "destroy", !.provider = provider, !.env = env,
                        !.local_backend = FALSE, !.destroying = TRUE],
           DestroySteps[1])
  /\ loc' = [NoLocals EXCEPT !.extra_vars = GetVars(provider, environ)]
  /\ UNCHANGED <<Persistent, Fixed, uuids>>


\* ------------------------------------------------------------- _tf_init
\* The template copied only into an absent working directory, in build too.
CopyNeededOnlyWhenAbsent(destroying, exists) == ~exists
\* The template copied by build only, never by destroy.
CopyNeededOnlyWhenBuilding(destroying, exists) == ~destroying
\* Line 104: whether the template is copied into the working directory.
CopyNeeded(destroying, exists) == ~destroying \/ ~exists

\* A failed environment check ignored.
EnvironmentFailedIgnored(outcome) == FALSE
\* Line 100: check_environment is called bare; when it raises, _tf_init ends.
EnvironmentFailed(outcome) == outcome = "raise"
\* new_workspace called whether or not the workspace exists.
NewWorkspaceAlways(exists) == TRUE
\* Line 109: whether new_workspace is called, given exists_workspace's answer.
NewWorkspaceNeeded(exists) == ~exists

\* Lines 99-101: look the directory up, check the environment, branch on the
\* provider's kind.
CheckEnvironment(outcome) ==
  /\ pc = "_tf_init"
  /\ Log("check_environment", outcome)
  /\ loc' = [loc EXCEPT !.directory = ProviderDir(op.provider)]
  /\ IF EnvironmentFailed(outcome) THEN Raise("EnvironmentError")
     ELSE /\ pc' = IF is_cloud_provider(op.provider) THEN "copy_tree" ELSE "tf.init.local"
          /\ result' = result
  /\ UNCHANGED <<Persistent, Frame, uuids>>

\* Lines 102-105: name the working directory and copy the template into it.
CopyTree ==
  /\ pc = "copy_tree"
  /\ LET directory == WorkingDir(op.provider, op.env)
         copy == CopyNeeded(op.destroying, directory \in workdirs)
     IN /\ loc' = [loc EXCEPT !.directory = directory]
        /\ workdirs' = IF copy THEN workdirs \cup {directory} ELSE workdirs
        /\ files' = IF copy /\ tfDirHoldsWork THEN files \cup {TF_DIR} ELSE files
        /\ calls' = IF copy THEN Append(calls, <<"copy_tree", "ok">>) ELSE calls
  /\ pc' = IF op.local_backend THEN "copy_local" ELSE "tf.init"
  /\ UNCHANGED <<result, mem, disk, config, localcfg, workspaces, Frame, uuids>>

\* Lines 106-107: copy the provider's local-backend config into the directory.
CopyLocal ==
  /\ pc = "copy_local"
  /\ localcfg' = localcfg \cup {loc.directory}
  /\ Log("shutil.copy", "ok")
  /\ pc' = "tf.init"
  /\ UNCHANGED <<result, loc, mem, disk, files, config, workdirs, workspaces, Frame, uuids>>

\* Line 108: tf_service.init(directory) of a cloud provider.
TfInit(outcome) ==
  /\ pc = "tf.init"
  /\ Log("tf.init", outcome)
  /\ IF outcome = "raise" THEN Raise("TerraformError") /\ UNCHANGED files
     ELSE pc' = "exists_workspace" /\ result' = result /\ files' = files \cup {TF_DIR}
  /\ UNCHANGED <<loc, mem, disk, config, workdirs, localcfg, workspaces, Frame, uuids>>

\* Line 109: tf_service.exists_workspace(directory, env).
ExistsWorkspace(outcome) ==
  /\ pc = "exists_workspace"
  /\ Log("tf.exists_workspace", outcome)
  /\ IF outcome = "raise" THEN Raise("TerraformError")
     ELSE /\ pc' = IF NewWorkspaceNeeded(<<loc.directory, op.env>> \in workspaces)
                   THEN "new_workspace" ELSE "select_workspace"
          /\ result' = result
  /\ UNCHANGED <<loc, Persistent, Frame, uuids>>

\* Line 110: tf_service.new_workspace(directory, env).
NewWorkspace(outcome) ==
  /\ pc = "new_workspace"
  /\ Log("tf.new_workspace", outcome)
  /\ IF outcome = "raise" THEN Raise("TerraformError") /\ UNCHANGED workspaces
     ELSE /\ pc' = "select_workspace" /\ result' = result
          /\ workspaces' = workspaces \cup {<<loc.directory, op.env>>}
  /\ UNCHANGED <<loc, mem, disk, files, config, workdirs, localcfg, Frame, uuids>>

\* Line 111 and the return of line 114: tf_service.select_workspace(directory, env).
SelectWorkspace(outcome) ==
  /\ pc = "select_workspace"
  /\ Log("tf.select_workspace", outcome)
  /\ IF outcome = "raise" THEN Raise("TerraformError") ELSE Done("_tf_init")
  /\ UNCHANGED <<loc, Persistent, Frame, uuids>>

\* Lines 113-114: tf_service.init(directory) of a local provider.
TfInitLocal(outcome) ==
  /\ pc = "tf.init.local"
  /\ Log("tf.init", outcome)
  /\ IF outcome = "raise" THEN Raise("TerraformError") /\ UNCHANGED files
     ELSE Done("_tf_init") /\ files' = files \cup {TF_DIR}
  /\ UNCHANGED <<loc, mem, disk, config, workdirs, localcfg, workspaces, Frame, uuids>>


\* ---------------------------------------------------------------- build
\* A terraform failure caught and dropped.
TfFailedSwallowed(outcome) == FALSE
\* Lines 58-59, 74: a terraform call that raises is not caught by the facade.
TfFailed(outcome) == outcome # "ok"

\* Line 58: tf_service.plan(directory, extra_vars).
Plan(outcome) ==
  /\ pc = "tf.plan"
  /\ Log("tf.plan", outcome)
  /\ IF TfFailed(outcome) THEN Raise("TerraformError") ELSE Done("tf.plan")
  /\ UNCHANGED <<loc, Persistent, Frame, uuids>>

\* Line 59: tf_service.apply(directory, extra_vars).  A successful apply
\* leaves the terraform state and the output document raw.
Apply(outcome, raw) ==
  /\ pc = "tf.apply"
  /\ Log("tf.apply", outcome)
  /\ files' = IF outcome = "ok" THEN TfWritesState(files) \cup {TF_CONFIG_JSON}
              ELSE TfWritesState(files)
  /\ config' = IF outcome = "ok" THEN raw ELSE config
  /\ IF TfFailed(outcome) THEN Raise("TerraformError") ELSE Done("tf.apply")
  /\ UNCHANGED <<loc, mem, disk, workdirs, localcfg, workspaces, Frame, uuids>>

\* Line 61 and lines 116-137: url, kubeconfig = self._parse_config().
ParseConfig ==
  /\ pc = "_parse_config"
  /\ LET outcome == IF TF_CONFIG_JSON \notin files THEN "FileNotFoundError"
                    ELSE ParseOutcome(config)
     IN /\ Log("_parse_config", IF outcome = "ok" THEN "ok" ELSE "raise")
        /\ IF outcome = "ok"
           THEN /\ loc' = [loc EXCEPT !.url = ParseUrl(config),
                                      !.kubeconfig = ParseKubeconfig(config)]
                /\ Done("_parse_config")
           ELSE Raise(outcome) /\ UNCHANGED loc
  /\ UNCHANGED <<Persistent, Frame, uuids>>

\* Line 63: self.state_service.create().
StateCreateStep ==
  /\ pc = "state.create"
  /\ Log("state.create", "ok")
  /\ disk' = StateCreate(disk)
  /\ Done("state.create")
  /\ UNCHANGED <<loc, mem, files, config, workdirs, localcfg, workspaces, Frame, uuids>>

\* set(BACKEND, ...) given the url alone.
BackendValuesUrlOnly(l, token) == [url |-> l.url]
\* set(INFRASTRUCTURE, ...) given the url for the kubeconfig.
InfrastructureValuesFromUrl(l) == [kubeconfig |-> l.url]
\* Line 64: the keyword arguments of set(BACKEND, ...).
BackendValues(l, token) == [url |-> l.url, token |-> token]
\* Line 65: the keyword arguments of set(INFRASTRUCTURE, ...).
InfrastructureValues(l) == [kubeconfig |-> l.kubeconfig]

\* Line 64: self.state_service.set(BACKEND, url=url, token=uuid.uuid4()).
SetBackend ==
  /\ pc = "state.set.BACKEND"
  /\ Log("state.set.BACKEND", "ok")
  /\ uuids' = uuids + 1
  /\ mem' = StateSet(mem, BACKEND, BackendValues(loc, Uuid4(uuids + 1)))
  /\ Done("state.set.BACKEND")
  /\ UNCHANGED <<loc, disk, files, config, workdirs, localcfg, workspaces, Frame>>

\* Line 65: self.state_service.set(INFRASTRUCTURE, kubeconfig=kubeconfig).
SetInfrastructure ==
  /\ pc = "state.set.INFRASTRUCTURE"
  /\ Log("state.set.INFRASTRUCTURE", "ok")
  /\ mem' = StateSet(mem, INFRASTRUCTURE, InfrastructureValues(loc))
  /\ Done("state.set.INFRASTRUCTURE")
  /\ UNCHANGED <<loc, disk, files, config, workdirs, localcfg, workspaces, Frame, uuids>>

\* Line 66: self.state_service.write().
StateWriteStep ==
  /\ pc = "state.write"
  /\ Log("state.write", "ok")
  /\ disk' = StateWrite(mem, disk)
  /\ Done("state.write")
  /\ UNCHANGED <<loc, mem, files, config, workdirs, localcfg, workspaces, Frame, uuids>>

\* -------------------------------------------------------------- destroy
\* Line 95: whether _delete_resources sends the request.
CleanupNeeded(m) == StateHasSection(m, BACKEND)
\* Line 96: the request's target, f"{self.url}/internal/resources".
CleanupTarget(m) == Format(StateGet(m, BACKEND, "url")) \o <<"/internal/resources">>
\* Line 96: requests.delete is called bare: an exception it raises leaves
\* _delete_resources and destroy, a returned error response is dropped.
RequestAborts(outcome) == outcome = "raise"

\* Line 73 and lines 94-96: self._delete_resources(), no BACKEND section.
SkipDeleteResources ==
  /\ pc = "_delete_resources"
  /\ ~CleanupNeeded(mem)
  /\ Log("state.has_section", "no")
  /\ Done("_delete_resources")
  /\ UNCHANGED <<loc, Persistent, Frame, uuids>>

\* Line 73 and lines 94-96: self._delete_resources(), the request is sent.
DeleteResources(outcome) ==
  /\ pc = "_delete_resources"
  /\ CleanupNeeded(mem)
  /\ calls' = calls \o << <<"state.has_section", "yes">>, <<"requests.delete", outcome>> >>
  /\ loc' = [loc EXCEPT !.request = CleanupTarget(mem)]
  /\ IF RequestAborts(outcome) THEN Raise("RequestException") ELSE Done("_delete_resources")
  /\ UNCHANGED <<Persistent, Frame, uuids>>

\* Line 74: tf_service.destroy(directory, extra_vars).
Destroy(outcome) ==
  /\ pc = "tf.destroy"
  /\ Log("tf.destroy", outcome)
  /\ files' = TfWritesState(files)
  /\ IF TfFailed(outcome) THEN Raise("TerraformError") ELSE Done("tf.destroy")
  /\ UNCHANGED <<loc, mem, disk, config, workdirs, localcfg, workspaces, Frame, uuids>>

\* _remove_build_files leaving the state backup behind.
RemovedFilesNoBackup == {TF_DIR, TF_STATE, TF_CONFIG_JSON}
\* Lines 85-92: the generated files _remove_build_files removes.
RemovedFiles == {TF_DIR, TF_STATE, TF_CONFIG_JSON, TF_STATE_BACKUP}

\* Line 75 and lines 80-92: self._remove_build_files().
RemoveBuildFiles ==
  /\ pc = "_remove_build_files"
  /\ calls' = calls \o << <<"state.delete", "ok">>, <<"rmtree", "ok">> >>
                    \o [i \in 1..Cardinality(files \cap (RemovedFiles \ {TF_DIR})) |->
                          <<"os.remove", "ok">>]
  /\ mem' = NoSections
  /\ disk' = NoState
  /\ files' = files \ RemovedFiles
  /\ config' = IF TF_CONFIG_JSON \in RemovedFiles THEN NoConfig ELSE config
  /\ workdirs' = IF tfDirHoldsWork /\ TF_DIR \in RemovedFiles THEN {} ELSE workdirs
  /\ localcfg' = IF tfDirHoldsWork /\ TF_DIR \in RemovedFiles THEN {} ELSE localcfg
  /\ Done("_remove_build_files")
  /\ UNCHANGED <<loc, workspaces, Frame, uuids>>

\* ------------------------------------------------------------------ Next
Next ==
  \/ \E url \in InitUrls, token \in InitTokens : InitCall(url, token)
  \/ InitBody
  \/ \E provider \in Providers, env \in Envs, local_backend \in BOOLEAN :
       BuildCall(provider, env, local_backend)
  \/ \E provider \in Providers, env \in Envs : DestroyCall(provider, env)
  \/ \E outcome \in Outcomes : CheckEnvironment(outcome)
  \/ CopyTree
  \/ CopyLocal
  \/ \E outcome \in Outcomes : TfInit(outcome)
  \/ \E outcome \in Outcomes : ExistsWorkspace(outcome)
  \/ \E outcome \in Outcomes : NewWorkspace(outcome)
  \/ \E outcome \in Outcomes : SelectWorkspace(outcome)
  \/ \E outcome \in Outcomes : TfInitLocal(outcome)
  \/ \E outcome \in Outcomes : Plan(outcome)
  \/ \E outcome \in Outcomes, raw \in ConfigSamples : Apply(outcome, raw)
  \/ ParseConfig
  \/ StateCreateStep
  \/ SetBackend
  \/ SetInfrastructure
  \/ StateWriteStep
  \/ SkipDeleteResources
  \/ \E outcome \in HttpOutcomes : DeleteResources(outcome)
  \/ \E outcome \in Outcomes : Destroy(outcome)
  \/ RemoveBuildFiles

Spec == Init /\ [][Next]_vars


\* ------------------------------------------------ _parse_config alone
\* The output documents _parse_config is tried on: one or two backend_domain
\* entries, each key absent, empty or set; number and string ports.
ParseEntries == {Entry(h, i) : h \in {None, "", "h"}, i \in {None, "", "1.2.3.4"}}
ParsePorts ==
  { Num(8080), Str(<<"8", "0", "8", "0">>), Str(<<"0", "8", "0">>), Str(<<"8", "x">>),
    Str(<<>>) }
ParseDocuments ==
  { [backend_domain |-> d, port |-> p, path |-> q, kubeconfig |-> "kube-1"] :
      d \in {<<e>> : e \in ParseEntries} \cup {<<e, Entry("g", "9.9.9.9")>> : e \in ParseEntries},
      p \in ParsePorts, q \in {"/api", ""} }

\* A build of DOCKER whose apply has just returned, leaving any of the
\* documents, over no state or over the state an init left.
StateAfterInit ==
  LET m == StateSet(NoSections, BACKEND,
                    [url |-> CHOOSE u \in InitUrls : TRUE, token |-> CHOOSE t \in InitTokens : TRUE])
  IN StateWrite(m, StateCreate(NoState))

InitParse ==
  /\ pc = "_parse_config"
  /\ op = [NoOp EXCEPT !.kind = "build", !.provider = DOCKER, !.env = "dev"]
  /\ prev \in { [kind |-> k, provider |-> None, env |-> None, returned |-> TRUE] :
                  k \in {"none", "init"} }
  /\ result = "running"
  /\ calls = << <<"check_environment", "ok">>, <<"tf.init", "ok">>, <<"tf.plan", "ok">>,
                <<"tf.apply", "ok">> >>
  /\ environ = [v \in EnvVarNames |-> None]
  /\ loc = [NoLocals EXCEPT !.extra_vars = GetVars(DOCKER, environ),
                            !.directory = ProviderDir(DOCKER)]
  /\ disk = IF prev.kind = "init" THEN StateAfterInit ELSE NoState
  /\ mem = disk.sections
  /\ disk0 = disk
  /\ files = {TF_DIR, TF_STATE, TF_CONFIG_JSON}
  /\ files0 = {}
  /\ workdirs0 = {}
  /\ localcfg0 = {}
  /\ workspaces0 = {}
  /\ config \in ParseDocuments
  /\ workdirs = {}
  /\ localcfg = {}
  /\ workspaces = {}
  /\ tfDirHoldsWork = FALSE
  /\ nOps = IF prev.kind = "init" THEN 2 ELSE 1
  /\ uuids = 0

NextParse ==
  \/ ParseConfig
  \/ StateCreateStep
  \/ SetBackend
  \/ SetInfrastructure
  \/ StateWriteStep

SpecParse == InitParse /\ [][NextParse]_vars

\* ---------------------------------------------------- _get_vars alone
\* Every process environment in which each credential variable is either
\* missing or set.
AllEnvirons ==
  LET full == CHOOSE e \in EnvironSamples : e["AWS_ACCESS_KEY_ID"] # None
  IN { [v \in EnvVarNames |-> IF v \in set THEN full[v] ELSE None] : set \in SUBSET EnvVarNames }

\* A fresh facade in any of those environments; build or destroy is called
\* once, which runs _get_vars first.
InitVars ==
  /\ pc = "idle"
  /\ op = NoOp
  /\ prev = [kind |-> "none", provider |-> None, env |-> None, returned |-> TRUE]
  /\ result = "ok"
  /\ calls = <<>>
  /\ loc = NoLocals
  /\ mem = NoSections
  /\ disk = NoState
  /\ disk0 = NoState
  /\ files = {}
  /\ files0 = {}
  /\ workdirs0 = {}
  /\ localcfg0 = {}
  /\ workspaces0 = {}
  /\ config = NoConfig
  /\ workdirs = {}
  /\ localcfg = {}
  /\ workspaces = {}
  /\ environ \in AllEnvirons
  /\ tfDirHoldsWork = FALSE
  /\ nOps = MaxOps - 1
  /\ uuids = 0

NextVars ==
  \/ \E provider \in Providers, env \in Envs, local_backend \in BOOLEAN :
       BuildCall(provider, env, local_backend)
  \/ \E provider \in Providers, env \in Envs : DestroyCall(provider, env)

SpecVars == InitVars /\ [][NextVars]_vars

\* ----------------------------------------------------- reading the calls
CallsNamed(name) == {i \in 1..Len(calls) : calls[i][1] = name}
Called(name) == CallsNamed(name) # {}
Returned(name) == \E i \in 1..Len(calls) : calls[i][1] = name /\ calls[i][2] # "raise"
ReturnedBefore(name, i) == \E j \in 1..(i - 1) : calls[j][1] = name /\ calls[j][2] # "raise"
SomeCallRaised == \E i \in 1..Len(calls) : calls[i][2] = "raise"

StoreMutators ==
  {"state.create", "state.set.BACKEND", "state.set.INFRASTRUCTURE", "state.write"}
BuildPrerequisites(provider) ==
  {"check_environment", "tf.init", "tf.plan", "tf.apply", "_parse_config"}
  \cup (IF is_cloud_provider(provider) THEN {"tf.select_workspace"} ELSE {})
RunningOrLast(kind) == op.kind = kind
Finished(kind) == op.kind = kind /\ pc = "idle"

\* ------------------------------------------------------------------ C1
\* C1: during build every mutating call on the state store (create, set
\* BACKEND, set INFRASTRUCTURE, write) comes after the environment check, the
\* IaC init (and the workspace selection of a cloud provider), plan, apply
\* and _parse_config have all returned; and when one of those steps raises,
\* build has made no mutating call and the state, persisted and in memory,
\* is what it was when build was called.
C1_StateWrittenLast ==
  RunningOrLast("build") =>
    /\ \A i \in 1..Len(calls) :
         calls[i][1] \in StoreMutators =>
           \A p \in BuildPrerequisites(op.provider) : ReturnedBefore(p, i)
    /\ (\A i \in 1..Len(calls) : calls[i][1] \notin StoreMutators) =>
         (disk = disk0 /\ mem = disk0.sections)
    /\ SomeCallRaised =>
         /\ \A i \in 1..Len(calls) : calls[i][1] \notin StoreMutators
         /\ disk = disk0

\* A build over a state left by init has returned and rewritten the state.
C1_Witness ==
  /\ Finished("build") /\ result = "ok"
  /\ disk0.created /\ disk # disk0
  /\ Called("state.write")

\* ------------------------------------------------------------------ C2
\* C2: a destroy whose cleanup request failed (an error response or a raised
\* exception), or was skipped for want of a BACKEND section, still ends with
\* _remove_build_files run: no persisted state and none of TF_DIR, TF_STATE,
\* TF_STATE_BACKUP, TF_CONFIG_JSON left.
CleanupFailed ==
  \E i \in 1..Len(calls) : calls[i][1] = "requests.delete" /\ calls[i][2] # "ok"
CleanupSkipped ==
  \E i \in 1..Len(calls) : calls[i] = <<"state.has_section", "no">>
BuildFilesRemoved ==
  /\ Called("state.delete")
  /\ ~StateIsCreated(disk)
  /\ files \cap Artifacts = {}

C2_DestroyAlwaysRemoves ==
  (Finished("destroy") /\ (CleanupFailed \/ CleanupSkipped)) => BuildFilesRemoved

\* ------------------------------------------------------------------ C3
\* C3: in destroy the generated artifacts are removed whether
\* tf_service.destroy returned or raised.
C3_RemovalRegardlessOfDestroy ==
  (Finished("destroy") /\ Called("tf.destroy")) => BuildFilesRemoved

\* ------------------------------------------------------------------ C4
\* C4: in destroy the cleanup request is sent only when the persisted state
\* has a BACKEND section; once _delete_resources has taken its decision the
\* request has been sent exactly when the state has that section; and
\* tf_service.destroy is invoked only after the decision, and after the
\* request has returned when one was due.
PersistedBackend == StateHasSection(disk0.sections, BACKEND)

C4_CleanupBeforeDestroy ==
  RunningOrLast("destroy") =>
    /\ Called("requests.delete") => PersistedBackend
    /\ Called("state.has_section") => (Called("requests.delete") <=> PersistedBackend)
    /\ \A i \in CallsNamed("tf.destroy") :
         /\ \E j \in 1..(i - 1) : calls[j][1] = "state.has_section"
         /\ PersistedBackend <=> ReturnedBefore("requests.delete", i)
    /\ Cardinality(CallsNamed("requests.delete")) <= 1

\* A destroy over a state with a BACKEND section has sent the request and
\* then invoked tf_service.destroy.
C4_Witness ==
  /\ RunningOrLast("destroy") /\ PersistedBackend
  /\ Returned("requests.delete") /\ Called("tf.destroy")

\* ------------------------------------------------------------------ C5
\* C5: a failed cleanup request does not abort destroy (tf_service.destroy is
\* still invoked after it), and every other failure ends the operation at
\* once with that failure as its result.
OtherFailureAborts ==
  \A i \in 1..Len(calls) :
    (calls[i][2] = "raise" /\ calls[i][1] # "requests.delete") =>
      (i = Len(calls) /\ pc = "idle" /\ result \notin {"ok", "running"})

C5_CleanupFailureSwallowed ==
  /\ (Finished("destroy") /\ CleanupFailed) => Called("tf.destroy")
  /\ OtherFailureAborts

\* ------------------------------------------------------------------ C6
\* C6: for a cloud provider, once _tf_init is past its copy step, the template
\* has been copied exactly when destroying is false or the working directory
\* did not exist; so a build always copies, and a destroy over an existing
\* working directory never does.  The copied directory then exists.
PastCopyStep ==
  /\ op.kind \in {"build", "destroy"}
  /\ is_cloud_provider(op.provider)
  /\ Returned("check_environment")
  /\ pc # "copy_tree"

C6_CopyRule ==
  PastCopyStep =>
    /\ Called("copy_tree") <=>
         (~op.destroying \/ WorkingDir(op.provider, op.env) \notin workdirs0)
    /\ Cardinality(CallsNamed("copy_tree")) <= 1
    /\ (op.kind = "build" /\ pc # "idle") => WorkingDir(op.provider, op.env) \in workdirs

\* A destroy over an existing working directory went through _tf_init
\* without copying the template.
C6_Witness ==
  /\ op.kind = "destroy" /\ PastCopyStep
  /\ WorkingDir(op.provider, op.env) \in workdirs0
  /\ ~Called("copy_tree")
  /\ Called("tf.init")

\* ------------------------------------------------------------------ C7
\* C7: within one build or destroy each of init, plan, apply and destroy is
\* invoked at most once, and a plan, apply or destroy that raises is the
\* operation's last call: the operation has ended with an error.
TfLifecycleCalls == {"tf.init", "tf.plan", "tf.apply", "tf.destroy"}

C7_NoRetryFailFast ==
  /\ \A name \in TfLifecycleCalls : Cardinality(CallsNamed(name)) <= 1
  /\ \A i \in 1..Len(calls) :
       (calls[i][1] \in {"tf.plan", "tf.apply", "tf.destroy"} /\ calls[i][2] = "raise") =>
         (i = Len(calls) /\ pc = "idle" /\ result = "TerraformError")

\* An apply has raised after a plan that returned.
C7_Witness ==
  /\ Finished("build")
  /\ Returned("tf.plan")
  /\ calls[Len(calls)] = <<"tf.apply", "raise">>


\* ------------------------------------------------------------------ C8
\* Whether key of section holds a value in the sections m.
IsSet(m, section, key) == StateGet(m, section, key) # NoneText
UrlTokenTogether(m) == IsSet(m, BACKEND, "url") <=> IsSet(m, BACKEND, "token")
BackendOf(m) == <<StateGet(m, BACKEND, "url"), StateGet(m, BACKEND, "token")>>
\* This step gives BACKEND.url or BACKEND.token a value it did not hold.
BackendSetNow ==
  /\ BackendOf(mem') # BackendOf(mem)
  /\ IsSet(mem', BACKEND, "url") \/ IsSet(mem', BACKEND, "token")

\* C8 as stated: BACKEND.url and BACKEND.token are both set or both unset,
\* and every step that sets them is a step of a build whose apply returned.
C8_SetOnlyAfterApply ==
  [][ /\ UrlTokenTogether(mem') /\ UrlTokenTogether(disk'.sections)
      /\ BackendSetNow => (op.kind = "build" /\ Returned("tf.apply")) ]_vars

\* C8 amended: BACKEND.url and BACKEND.token are both set or both unset, in
\* memory and persisted; a build sets them only after its apply returned, to
\* the url _parse_config composed and a fresh token; init sets them to its
\* two arguments, with no apply.
C8_SetTogetherByBuildOrInit ==
  [][ /\ UrlTokenTogether(mem') /\ UrlTokenTogether(disk'.sections)
      /\ BackendSetNow =>
           \/ /\ op.kind = "build" /\ Returned("tf.apply") /\ Returned("_parse_config")
              /\ StateGet(mem', BACKEND, "url") = ParseUrl(config)
              /\ StateGet(mem', BACKEND, "token") = Uuid4(uuids')
           \/ /\ op.kind = "init"
              /\ BackendOf(mem') = <<op.url, op.token>> ]_vars

\* A build has returned with url and token persisted.
C8_Witness ==
  /\ Finished("build") /\ result = "ok"
  /\ IsSet(disk.sections, BACKEND, "url") /\ IsSet(disk.sections, BACKEND, "token")
  /\ Returned("tf.apply")

\* ------------------------------------------------------------------ C9
\* C9: every step that gives INFRASTRUCTURE.kubeconfig a value is a step of a
\* build whose _parse_config returned, and the value is the kubeconfig of the
\* document _parse_config read; writing persists that value unchanged.
KubeconfigOf(m) == StateGet(m, INFRASTRUCTURE, "kubeconfig")

C9_KubeconfigFromParse ==
  [][ /\ (KubeconfigOf(mem') # KubeconfigOf(mem) /\ KubeconfigOf(mem') # NoneText) =>
           /\ op.kind = "build" /\ Returned("_parse_config")
           /\ KubeconfigOf(mem') = ParseKubeconfig(config)
      /\ (KubeconfigOf(disk'.sections) # KubeconfigOf(disk.sections)
            /\ KubeconfigOf(disk'.sections) # NoneText) =>
           /\ op.kind = "build" /\ Returned("_parse_config")
           /\ KubeconfigOf(disk'.sections) = ParseKubeconfig(config) ]_vars

\* An init after a build: the kubeconfig the build persisted is still set.
C9_Witness ==
  /\ Finished("init") /\ prev.kind = "build" /\ prev.returned
  /\ KubeconfigOf(disk.sections) = <<config.kubeconfig>>
  /\ TF_CONFIG_JSON \in files

\* ----------------------------------------------------------------- C10
\* C10: when destroy(X, env) returns right after a build(X, env), no state is
\* persisted (is_created() is false) and none of TF_STATE, TF_STATE_BACKUP,
\* TF_CONFIG_JSON, TF_DIR exists, whether or not the working directory is
\* still there.
DestroyAfterBuild ==
  /\ Finished("destroy") /\ result = "ok"
  /\ prev.kind = "build" /\ prev.provider = op.provider /\ prev.env = op.env

C10_BuildThenDestroyLeavesNothing ==
  DestroyAfterBuild =>
    /\ ~StateIsCreated(disk)
    /\ mem = NoSections
    /\ files \cap Artifacts = {}

\* A build of a cloud provider returned, the destroy after it returned, and
\* the working directory is still there.
C10_Witness ==
  /\ DestroyAfterBuild /\ prev.returned
  /\ StateIsCreated(disk0) /\ Artifacts \ {TF_STATE_BACKUP} \subseteq files0
  /\ WorkingDir(op.provider, op.env) \in workdirs


NoUsableDomain ==
  LET first == config.backend_domain[1]
  IN first.hostname \in {None, ""} /\ first.ip \in {None, ""}

C12_HostnameErrorAbortsBuild ==
  (RunningOrLast("build") /\ Called("_parse_config") /\ NoUsableDomain) =>
    /\ pc = "idle" /\ result = "HostnameError"
    /\ calls[Len(calls)] = <<"_parse_config", "raise">>
    /\ \A i \in 1..Len(calls) : calls[i][1] \notin StoreMutators
    /\ disk = disk0 /\ mem = disk0.sections

\* backend_domain = [{}] over the state an init left: HostnameError, and the
\* state is still the one init wrote.
C12_Witness ==
  /\ Finished("build") /\ result = "HostnameError"
  /\ config.backend_domain = <<Entry(None, None)>>
  /\ StateIsCreated(disk) /\ disk = disk0

\* ----------------------------------------------------------------- C13
\* C13: when _parse_config returns, the url is "http://", then the first
\* entry's hostname if it has one (else the first entry's ip), ":", the port as
\* a decimal integer, and the path; the kubeconfig is the document's, unchanged.
\* Later entries are not looked at.  [{hostname: "h", ip: "1.2.3.4"}], port
\* 8080 and path "/api" give http://h:8080/api.
ExampleDocument(raw) ==
  /\ raw.backend_domain[1] = Entry("h", "1.2.3.4")
  /\ raw.port \in {Num(8080), Str(<<"8", "0", "8", "0">>)}
  /\ raw.path = "/api"
PortDigits(p) ==
  IF p \in {Num(8080), Str(<<"8", "0", "8", "0">>)} THEN <<"8", "0", "8", "0">>
  ELSE IF p = Str(<<"0", "8", "0">>) THEN <<"8", "0">>
  ELSE <<"?">>

C13_UrlFromFirstEntry ==
  (RunningOrLast("build") /\ Returned("_parse_config")) =>
    LET first == config.backend_domain[1]
        domain == IF first.hostname \notin {None, ""} THEN first.hostname ELSE first.ip
    IN /\ loc.url = <<"http://", domain, ":">> \o PortDigits(config.port) \o <<config.path>>
       /\ loc.kubeconfig = <<config.kubeconfig>>
       /\ ExampleDocument(config) => loc.url = <<"http://", "h", ":", "8", "0", "8", "0", "/api">>

\* The example document, followed by a second entry, has been parsed.
C13_Witness ==
  /\ RunningOrLast("build") /\ Returned("_parse_config")
  /\ ExampleDocument(config) /\ Len(config.backend_domain) = 2
  /\ loc.url = <<"http://", "h", ":", "8", "0", "8", "0", "/api">>


\* ----------------------------------------------------------------- C14
\* C14: the variables _get_vars gives build and destroy always start with
\* config_dir; for AWS they go on with exactly aws_access_key_id,
\* aws_secret_access_key and region, for GCP with exactly credentials_path,
\* each with the value of its environment variable; for DOCKER and MINIKUBE
\* config_dir is alone.  A missing environment variable does not stop
\* _get_vars: its token carries the text None.
EnvValue(name) == IF environ[name] = None THEN "None" ELSE environ[name]
VarKeys(tokens) == [i \in 1..Len(tokens) |-> tokens[i][2]]

C14_VariablesPerProvider ==
  op.kind \in {"build", "destroy"} =>
    LET tokens == loc.extra_vars
    IN /\ pc = "_tf_init"
       /\ \A i \in 1..Len(tokens) : tokens[i][1] = "--var"
       /\ tokens[1] = <<"--var", "config_dir", OutDir>>
       /\ op.provider = AWS =>
            /\ VarKeys(tokens) =
                 <<"config_dir", "aws_access_key_id", "aws_secret_access_key", "region">>
            /\ tokens[2][3] = EnvValue("AWS_ACCESS_KEY_ID")
            /\ tokens[3][3] = EnvValue("AWS_SECRET_ACCESS_KEY")
            /\ tokens[4][3] = EnvValue("AWS_DEFAULT_REGION")
       /\ op.provider = GCP =>
            /\ VarKeys(tokens) = <<"config_dir", "credentials_path">>
            /\ tokens[2][3] = EnvValue("GOOGLE_APPLICATION_CREDENTIALS")
       /\ op.provider \in {DOCKER, MINIKUBE} => VarKeys(tokens) = <<"config_dir">>

\* AWS with KEY=abc and SECRET=xyz set and the region missing.
C14_Witness ==
  /\ op.kind = "build" /\ op.provider = AWS
  /\ environ["AWS_DEFAULT_REGION"] = None
  /\ loc.extra_vars = << <<"--var", "config_dir", OutDir>>,
                         <<"--var", "aws_access_key_id", "abc">>,
                         <<"--var", "aws_secret_access_key", "xyz">>,
                         <<"--var", "region", "None">> >>


\* ----------------------------------------------------------------- C15
\* C15: a build over a state that already exists (is_created() was true when
\* build was called) does not call state_service.create().
C15_CreateOnlyIfAbsent ==
  (RunningOrLast("build") /\ StateIsCreated(disk0)) => ~Called("state.create")


\* ----------------------------------------------------------------- C16
\* C16: for a cloud provider _tf_init calls, in this order, IaC init on the
\* working directory, exists_workspace, new_workspace exactly when the
\* workspace (directory, env) did not exist, and select_workspace; every plan,
\* apply or destroy of the operation comes after select_workspace returned;
\* new_workspace is never called for a workspace that exists, and each of the
\* three workspace calls is made at most once.
TheWorkspace == <<WorkingDir(op.provider, op.env), op.env>>
WorkspaceCalls == {"tf.exists_workspace", "tf.new_workspace", "tf.select_workspace"}

C16_WorkspaceProtocol ==
  (op.kind \in {"build", "destroy"} /\ is_cloud_provider(op.provider)) =>
    /\ \A i \in CallsNamed("tf.exists_workspace") : ReturnedBefore("tf.init", i)
    /\ \A i \in CallsNamed("tf.new_workspace") :
         /\ ReturnedBefore("tf.exists_workspace", i)
         /\ TheWorkspace \notin workspaces0
    /\ \A i \in CallsNamed("tf.select_workspace") :
         /\ ReturnedBefore("tf.exists_workspace", i)
         /\ ReturnedBefore("tf.new_workspace", i) <=> TheWorkspace \notin workspaces0
         /\ calls[i][2] = "ok" => TheWorkspace \in workspaces
    /\ \A i \in 1..Len(calls) :
         calls[i][1] \in {"tf.plan", "tf.apply", "tf.destroy"} =>
           ReturnedBefore("tf.select_workspace", i)
    /\ \A name \in WorkspaceCalls : Cardinality(CallsNamed(name)) <= 1
    /\ (Returned("tf.exists_workspace") /\ pc \notin {"new_workspace", "select_workspace"}
          /\ ~SomeCallRaised) =>
         Returned("tf.select_workspace")

\* A second operation on a cloud provider whose workspace the first created:
\* select_workspace without new_workspace, then the plan or destroy.
C16_Witness ==
  /\ op.kind \in {"build", "destroy"} /\ is_cloud_provider(op.provider)
  /\ TheWorkspace \in workspaces0
  /\ Returned("tf.select_workspace") /\ ~Called("tf.new_workspace")
  /\ Called("tf.plan") \/ Called("tf.destroy")


\* ----------------------------------------------------------------- C17
\* C17: for DOCKER and MINIKUBE, in build and in destroy, _tf_init makes no
\* template copy, no local-backend config copy and no exists_workspace,
\* new_workspace or select_workspace call; it calls the IaC init once, and the
\* directory it returns, used for the rest of the operation, is the provider's
\* own: what follows _tf_init (plan, or the cleanup decision) comes right
\* after the IaC init.  No working directory, local config or workspace appears.
LocalProvider == op.kind \in {"build", "destroy"} /\ op.provider \in {DOCKER, MINIKUBE}
CloudOnlyCalls ==
  {"copy_tree", "shutil.copy", "tf.exists_workspace", "tf.new_workspace", "tf.select_workspace"}

C17_LocalProviderInitOnly ==
  LocalProvider =>
    /\ \A i \in 1..Len(calls) : calls[i][1] \notin CloudOnlyCalls
    /\ Cardinality(CallsNamed("tf.init")) <= 1
    /\ Returned("check_environment") => loc.directory = ProviderDir(op.provider)
    /\ \A i \in 1..Len(calls) :
         calls[i][1] \in {"tf.plan", "tf.apply", "tf.destroy", "state.has_section"} =>
           calls[i - 1][1] \in TfLifecycleCalls \cup {"state.has_section", "requests.delete"}
    /\ workdirs \subseteq workdirs0 /\ localcfg \subseteq localcfg0 /\ workspaces = workspaces0

\* A build of MINIKUBE asked for the local backend has gone through _tf_init
\* with the IaC init as its only call after the environment check, and planned.
C17_Witness ==
  /\ LocalProvider /\ op.provider = MINIKUBE /\ op.local_backend
  /\ calls = << <<"check_environment", "ok">>, <<"tf.init", "ok">>, <<"tf.plan", "ok">> >>
  /\ loc.directory = <<MINIKUBE>>


\* ----------------------------------------------------------------- C18
\* C18: when the environment check raises in build or destroy, it is the
\* operation's only call: nothing is copied, no IaC operation is invoked, no
\* cleanup request is sent, and the state (persisted and in memory), the
\* artifacts, the working directories, their local configs and the workspaces
\* are what they were when the operation was called.
EnvironmentCheckRaised ==
  /\ op.kind \in {"build", "destroy"}
  /\ \E i \in 1..Len(calls) : calls[i] = <<"check_environment", "raise">>

C18_EnvironmentFailureNoEffect ==
  EnvironmentCheckRaised =>
    /\ calls = << <<"check_environment", "raise">> >>
    /\ pc = "idle" /\ result = "EnvironmentError"
    /\ disk = disk0 /\ mem = disk0.sections
    /\ files = files0
    /\ workdirs = workdirs0 /\ localcfg = localcfg0 /\ workspaces = workspaces0

\* A destroy after a build that returned: the environment check raises and
\* the state and the artifacts of the build are still there.
C18_Witness ==
  /\ EnvironmentCheckRaised /\ op.kind = "destroy"
  /\ prev.kind = "build" /\ prev.returned
  /\ StateIsCreated(disk) /\ TF_CONFIG_JSON \in files


\* ----------------------------------------------------------------- C19
\* C19: build never sends the cleanup request, never invokes
\* tf_service.destroy and never deletes the state or an artifact; destroy never
\* plans or applies, never parses the output document, never copies the
\* local-backend config and never sets a BACKEND or INFRASTRUCTURE value: the
\* sections in memory stay as persisted until destroy deletes them all.
DestroyOnlyCalls ==
  {"state.has_section", "requests.delete", "tf.destroy", "state.delete", "rmtree", "os.remove"}
BuildOnlyCalls ==
  {"tf.plan", "tf.apply", "_parse_config", "shutil.copy", "state.create",
   "state.set.BACKEND", "state.set.INFRASTRUCTURE", "state.write"}

C19_BuildDestroyDisjoint ==
  /\ RunningOrLast("build") =>
       /\ \A i \in 1..Len(calls) : calls[i][1] \notin DestroyOnlyCalls
       /\ files0 \subseteq files
       /\ workdirs0 \subseteq workdirs /\ localcfg0 \subseteq localcfg
       /\ StateIsCreated(disk0) => StateIsCreated(disk)
       /\ DOMAIN disk0.sections \subseteq DOMAIN mem
  /\ RunningOrLast("destroy") =>
       /\ \A i \in 1..Len(calls) : calls[i][1] \notin BuildOnlyCalls
       /\ localcfg \subseteq localcfg0
       /\ mem \in {disk0.sections, NoSections}
       /\ disk \in {disk0, NoState}
       /\ TF_CONFIG_JSON \notin files \ files0

\* A destroy of a cloud provider has returned after a build with the local
\* backend that returned: it removed what the build made.
C19_Witness ==
  /\ Finished("destroy") /\ result = "ok" /\ is_cloud_provider(op.provider)
  /\ prev.kind = "build" /\ prev.returned
  /\ WorkingDir(op.provider, op.env) \in localcfg0
  /\ StateIsCreated(disk0) /\ ~StateIsCreated(disk)


\* ----------------------------------------------------------------- C20
\* C20: a destroy that returns, of a cloud (provider, env) never built (no
\* persisted BACKEND section, no working directory, no workspace), has copied
\* the template into the working directory, initialised it, created and
\* selected the workspace, skipped the cleanup request, invoked
\* tf_service.destroy and then removed the state and the artifacts; the
\* workspace now exists, and the working directory is left behind unless it
\* lies under TF_DIR.
NeverBuilt ==
  /\ op.kind = "destroy" /\ is_cloud_provider(op.provider)
  /\ ~StateHasSection(disk0.sections, BACKEND)
  /\ WorkingDir(op.provider, op.env) \notin workdirs0
  /\ <<WorkingDir(op.provider, op.env), op.env>> \notin workspaces0

NeverBuiltCalls ==
  << <<"check_environment", "ok">>, <<"copy_tree", "ok">>, <<"tf.init", "ok">>,
     <<"tf.exists_workspace", "ok">>, <<"tf.new_workspace", "ok">>,
     <<"tf.select_workspace", "ok">>, <<"state.has_section", "no">>,
     <<"tf.destroy", "ok">>, <<"state.delete", "ok">>, <<"rmtree", "ok">> >>

C20_DestroyOfNeverBuilt ==
  (NeverBuilt /\ pc = "idle" /\ result = "ok") =>
    /\ Len(calls) >= Len(NeverBuiltCalls)
    /\ SubSeq(calls, 1, Len(NeverBuiltCalls)) = NeverBuiltCalls
    /\ \A i \in (Len(NeverBuiltCalls) + 1)..Len(calls) : calls[i] = <<"os.remove", "ok">>
    /\ <<WorkingDir(op.provider, op.env), op.env>> \in workspaces
    /\ WorkingDir(op.provider, op.env) \in workdirs <=> ~tfDirHoldsWork
    /\ disk = NoState /\ mem = NoSections
    /\ files \cap Artifacts = {}

\* Such a destroy has returned, and the working directory it made lies outside
\* TF_DIR: it is left behind, with its workspace.
C20_Witness ==
  /\ NeverBuilt /\ pc = "idle" /\ result = "ok"
  /\ ~tfDirHoldsWork
  /\ WorkingDir(op.provider, op.env) \in workdirs \ workdirs0
  /\ <<WorkingDir(op.provider, op.env), op.env>> \in workspaces \ workspaces0

====
